---- MODULE Spec2Model ----
(***************************************************************************)
(* Model of backtest_optimizer/main.py: the CPCV split generator           *)
(* (SpecCpcv), create_combcv_dict (SpecCombcv), the per-fold parameter     *)
(* search of ParameterOptimizer.optimize (SpecOpt) and the reload of what  *)
(* it saved (SpecReload), cluster_and_aggregate (SpecAgg), aggregate_params *)
(* (SpecAgp), run_stress_tests (SpecStress) and reconstruct_equity_curves  *)
(* (SpecRecon).                                                            *)
(***************************************************************************)
EXTENDS Integers, Sequences, FiniteSets, TLC

(***************************************************************************)
(* Bounds of the model.                                                    *)
(***************************************************************************)
MaxTSpan == 8
MaxN == 5
\* optimize: trial budgets 1..MaxRuns, parallelism 1..MaxJobs, folds 0..NumFolds-1
MaxRuns == 2
MaxJobs == 2
\* load_best_params: pools of 1..MaxPool validated trials
MaxPool == 3
\* run_stress_tests: ledgers of 0..MaxLedger trials
MaxLedger == 3
\* reconstruct_equity_curves: path matrices of at most MaxPathRows rows, built
\* for at most MaxPathGroups groups
MaxPathRows == 5
MaxPathGroups == 3
\* aggregate_params: clusters of 1..MaxCluster trials
MaxCluster == 2
\* create_combcv_dict: n_splits and n_test_splits are at most MaxSplits; a
\* ticker's training series has MaxExtraRows rows at most above a multiple,
\* MaxMultiple at most, of the rows asked per combination
MaxSplits == 8
MaxMultiple == 3
MaxExtraRows == 5

VARIABLES
  \* cpcv_generator: arguments, position, locals and returned arrays
  t_span, n, k, cpcv_pc, group_num, n_paths, is_test, path_folds, paths,
  \* optimize: arguments, position, the fold's study (a RUNNING trial is in a worker)
  n_jobs, n_runs, best_trials_pct, file_prefix, opt_pc, fold_num, val_i, study,
  \* optimize: locals all_tested_params, result, all_trials, top_params
  all_tested_params_local, result, all_trials, top_params,
  \* ParameterOptimizer: attributes and the two saved tables
  save_path, top_params_list, all_tested_params, best_params_by_fold,
  top_params_csv, all_tested_params_csv,
  \* cluster_and_aggregate: position and returned best_param_set
  agg_pc, best_param_set,
  \* run_stress_tests: position, what calc_pl did per trial, results, result_df
  stress_pc, calc_pl_outcome, results, result_df,
  \* reconstruct_equity_curves: self.backtest_paths, position, the loop
  \* variables path_num and the rest of unique_folds, the calls of calc_pl made,
  \* path_returns and final_returns
  backtest_paths, rec_pc, path_num, unique_folds, calc_pl_calls,
  path_returns, final_returns,
  \* aggregate_params: position, the argument params_list, the returned dict
  agp_pc, cluster_params, aggregated,
  \* read_saved_params on a new ParameterOptimizer: position, its attributes
  read_pc, reloaded,
  \* create_combcv_dict: position, len(df) per ticker of self.train_data, the
  \* arguments, self.combcv_dict
  cv_pc, train_data, n_splits, n_test_splits, combcv_dict

cpcvVars == <<t_span, n, k, cpcv_pc, group_num, n_paths, is_test, path_folds, paths>>

optArgs == <<n_jobs, n_runs, best_trials_pct, file_prefix>>

optLocals == <<all_tested_params_local, result, all_trials, top_params>>

optSelf == <<save_path, top_params_list, all_tested_params, best_params_by_fold,
             top_params_csv, all_tested_params_csv>>

optVars == <<optArgs, opt_pc, fold_num, val_i, study, optLocals, optSelf>>

aggVars == <<agg_pc, best_param_set>>

stressVars == <<stress_pc, calc_pl_outcome, results, result_df>>

reconVars == <<backtest_paths, rec_pc, path_num, unique_folds, calc_pl_calls,
               path_returns, final_returns>>

\* The variables of the components modelled after the first four.
agpVars == <<agp_pc, cluster_params, aggregated>>

readVars == <<read_pc, reloaded>>

combcvVars == <<cv_pc, train_data, n_splits, n_test_splits, combcv_dict>>

restVars == <<reconVars, agpVars, readVars, combcvVars>>

vars == <<cpcvVars, optVars, aggVars, stressVars, restVars>>

(***************************************************************************)
(* Values shared by the components.                                        *)
(***************************************************************************)

\* np.nan, the fill value of path_folds and paths and the missing fold_num.
NaN == -1

\* An array or list of zero size.
Empty == <<>>

\* Python's None.
None == "None"

\* The elements of a list.
Range(q) == {q[i] : i \in DOMAIN q}

Min(S) == CHOOSE x \in S : \A y \in S : x <= y

Max(S) == CHOOSE x \in S : \A y \in S : x >= y

\* The state of optimize before it is called, the two attributes that
\* cluster_and_aggregate and run_stress_tests read apart.
OptIdleLocals ==
  /\ n_jobs = 0 /\ n_runs = 0 /\ best_trials_pct = <<0, 1>>
  /\ file_prefix = None /\ save_path = None
  /\ opt_pc = "off" /\ fold_num = 0 /\ val_i = 0
  /\ study = Empty
  /\ all_tested_params_local = Empty /\ result = Empty
  /\ all_trials = Empty /\ top_params = Empty
  /\ best_params_by_fold = Empty
  /\ top_params_csv = Empty /\ all_tested_params_csv = Empty

OptIdle ==
  /\ OptIdleLocals
  /\ top_params_list = Empty /\ all_tested_params = Empty

AggIdle == agg_pc = "off" /\ best_param_set = Empty

StressIdle ==
  /\ stress_pc = "off" /\ calc_pl_outcome = Empty
  /\ results = Empty /\ result_df = Empty

ReconIdle ==
  /\ backtest_paths = Empty /\ rec_pc = "off" /\ path_num = 0
  /\ unique_folds = Empty /\ calc_pl_calls = Empty
  /\ path_returns = Empty /\ final_returns = Empty

AgpIdle == agp_pc = "off" /\ cluster_params = Empty /\ aggregated = Empty

\* ParameterOptimizer.__init__: the attributes read_saved_params assigns.
NewOptimizer ==
  [top_params_list |-> Empty, all_tested_params |-> Empty,
   best_params_by_fold |-> Empty]

ReadIdle == read_pc = "off" /\ reloaded = NewOptimizer

CombcvIdle ==
  /\ cv_pc = "off" /\ train_data = Empty
  /\ n_splits = 0 /\ n_test_splits = 0 /\ combcv_dict = Empty

RestIdle == ReconIdle /\ AgpIdle /\ ReadIdle /\ CombcvIdle

(***************************************************************************)
(* ----------------------------- cpcv_generator -------------------------- *)
(***************************************************************************)

\* group_num = np.arange(t_span) // (t_span // n); group_num[group_num == n] = n - 1
GroupNum(ts, nn) ==
  [t \in 0..(ts - 1) |->
     LET g == t \div (ts \div nn) IN IF g = nn THEN nn - 1 ELSE g]

\* itertools.combinations(range(lo, nn), kk), in its lexicographic order.
RECURSIVE CombsFrom(_, _, _)
CombsFrom(lo, nn, kk) ==
  IF kk = 0 THEN << <<>> >>
  ELSE IF lo >= nn THEN <<>>
  ELSE LET rest == CombsFrom(lo + 1, nn, kk - 1)
       IN [i \in 1..Len(rest) |-> <<lo>> \o rest[i]] \o CombsFrom(lo + 1, nn, kk)

\* test_groups: row c (0-based) is the c-th combination, as the set of its groups.
TestGroups(nn, kk) ==
  LET cs == CombsFrom(0, nn, kk)
  IN [c \in 0..(Len(cs) - 1) |-> {cs[c + 1][i] : i \in 1..kk}]

NPathsWithoutK(C_nk, kk, nn) == C_nk \div nn

\* n_paths = C_nk * k // n
NPaths(C_nk, kk, nn) == (C_nk * kk) \div nn

\* is_test_group after the marking loops: group g is a test group of combination c.
IsTestGroup(nn, tg) ==
  [g \in 0..(nn - 1), c \in DOMAIN tg |-> g \in tg[c]]

\* is_test[mask, c] = True for mask = (group_num == i), i in the combination c.
IsTest(ts, gn, tg) ==
  [t \in 0..(ts - 1), c \in DOMAIN tg |-> gn[t] \in tg[c]]

\* is_test_group[j, :].argmax(): the first True column, 0 when the row has none.
ArgMax(itg, j, C_nk) ==
  IF \E c \in 0..(C_nk - 1) : itg[j, c]
  THEN Min({c \in 0..(C_nk - 1) : itg[j, c]})
  ELSE 0

ConsumeNone(itg, j, s_idx) == itg

\* is_test_group[j, s_idx] = False
Consume(itg, j, s_idx) == [itg EXCEPT ![j, s_idx] = FALSE]

\* for i in range(n_paths): for j in range(n): ... ; s numbers the iterations.
RECURSIVE PathFoldsLoop(_, _, _, _, _, _)
PathFoldsLoop(s, itg, pf, nn, np, C_nk) ==
  IF s >= np * nn THEN pf
  ELSE LET i == s \div nn
           j == s % nn
           s_idx == ArgMax(itg, j, C_nk)
       IN PathFoldsLoop(s + 1, Consume(itg, j, s_idx),
                        [pf EXCEPT ![j, i] = s_idx], nn, np, C_nk)

PathFolds(nn, np, tg) ==
  PathFoldsLoop(0, IsTestGroup(nn, tg),
                [g \in 0..(nn - 1), p \in 0..(np - 1) |-> NaN],
                nn, np, Cardinality(DOMAIN tg))

\* paths[mask, p] = int(path_folds[i, p]) for mask = (group_num == i), i in range(n)
Paths(ts, nn, np, gn, pf) ==
  [t \in 0..(ts - 1), p \in 0..(np - 1) |->
     IF gn[t] \in 0..(nn - 1) THEN pf[gn[t], p] ELSE NaN]

CpcvIdle ==
  /\ t_span = 0 /\ n = 0 /\ k = 0
  /\ cpcv_pc = "off"
  /\ group_num = Empty /\ n_paths = 0
  /\ is_test = Empty /\ path_folds = Empty /\ paths = Empty

\* Arguments of a call: 1 <= k <= n <= t_span.
InitCpcv ==
  /\ t_span \in 1..MaxTSpan
  /\ n \in 1..MaxN
  /\ k \in 1..MaxN
  /\ k <= n /\ n <= t_span
  /\ cpcv_pc = "call"
  /\ group_num = Empty /\ n_paths = 0
  /\ is_test = Empty /\ path_folds = Empty /\ paths = Empty
  /\ OptIdle /\ AggIdle /\ StressIdle /\ RestIdle

cpcv_generator ==
  /\ cpcv_pc = "call"
  /\ LET gn == GroupNum(t_span, n)
         tg == TestGroups(n, k)
         np == NPaths(Cardinality(DOMAIN tg), k, n)
         pf == PathFolds(n, np, tg)
     IN /\ group_num' = gn
        /\ n_paths' = np
        /\ is_test' = IsTest(t_span, gn, tg)
        /\ path_folds' = pf
        /\ paths' = Paths(t_span, n, np, gn, pf)
  /\ cpcv_pc' = "done"
  /\ UNCHANGED <<t_span, n, k>>
  /\ UNCHANGED <<optVars, aggVars, stressVars, restVars>>

NextCpcv == cpcv_generator

SpecCpcv == InitCpcv /\ [][NextCpcv]_vars

(***************************************************************************)
(* ------------------------------- optimize ------------------------------ *)
(* A parameter dict is a record: keys is the set of keys present, and a    *)
(* field whose key is absent holds 0.  Keys: "a" (searched), "b" (fixed),  *)
(* "fold_num", "sharpe".  A Sharpe ratio is kept in units of 1/ScoreScale; *)
(* a negative number is a NaN: NaN itself is the np.nan singleton, every   *)
(* smaller number a NaN object of its own (np.nanmean returns a new one),  *)
(* so that equality of two NaN is identity, as in Python containers.       *)
(***************************************************************************)

\* The folds (keys) of combcv_dict: 0..NumFolds-1.
NumFolds == 2

\* params["a"]: the admissible values of the searched dimension.
ParamValues == {1, 2}

\* params["b"]: a fixed-valued dimension.
FixedB == 7

\* annual_sharpe of a non-empty return series, as the evaluation may give it.
SharpeValues == {1, 2}

\* The groups of generate_group_dict(is_train=True) and (is_train=False).
NumTrainGroups == 2
NumTestGroups == 1

RECURSIVE Fact(_)
Fact(x) == IF x <= 1 THEN 1 ELSE x * Fact(x - 1)

ScoreScale == Fact(Max({NumTrainGroups, NumTestGroups}))

\* best_trials_pct as a fraction <<numerator, denominator>>.
Pcts == {<<1, 2>>, <<1, 1>>}

\* What calc_pl(group_data, params) does: raises, or returns a series.
Outcomes ==
  {[kind |-> "raise", sharpe |-> 0], [kind |-> "empty", sharpe |-> 0]}
    \cup {[kind |-> "series", sharpe |-> v] : v \in SharpeValues}

IsNaNValue(x) == x < 0

\* The NaN object created for the uid-th use.
FreshNaN(uid) == -(uid + 2)

RECURSIVE SumSeq(_)
SumSeq(q) == IF q = <<>> THEN 0 ELSE Head(q) + SumSeq(Tail(q))

\* trial.params after the suggest calls: only the searched dimension.
TrialParams(a) ==
  [keys |-> {"a"}, a |-> a, b |-> 0, fold_num |-> 0, sharpe |-> 0]

\* trial_params.setdefault(key, value) for every key of params_dict
Backfill(d) ==
  IF "b" \in d.keys THEN d ELSE [d EXCEPT !.keys = @ \cup {"b"}, !.b = FixedB]

\* standalone_combcv_pl: outs[g] is what calc_pl does for group g.  The
\* result is "raise" when some call raises (no handler: it propagates), else
\* the mean of annual_sharpe over the non-empty series, NaN when there is none.
CombcvRaises(outs) == \E g \in DOMAIN outs : outs[g].kind = "raise"

NanMean(sharpes, nanid) ==
  IF sharpes = <<>> THEN FreshNaN(nanid)
  ELSE (SumSeq(sharpes) * ScoreScale) \div Len(sharpes)

StandaloneCombcvPl(outs, ngroups, nanid) ==
  LET returns_list == [g \in 1..ngroups |-> outs[g - 1]]
      nonempty == SelectSeq(returns_list, LAMBDA r : r.kind = "series")
      sharpe_ratios == [i \in 1..Len(nonempty) |-> nonempty[i].sharpe]
  IN NanMean(sharpe_ratios, nanid)

\* existing_params: the params of the trials whose state is COMPLETE.
ExistingParams(st) ==
  {st[i].params : i \in {j \in DOMAIN st : st[j].state = "COMPLETE"}}

\* sorted(..., key=value, reverse=True): stable, equal values keep their order.
RECURSIVE InsertDesc(_, _)
InsertDesc(q, t) ==
  IF q = <<>> THEN <<t>>
  ELSE IF Head(q).value >= t.value THEN <<Head(q)>> \o InsertDesc(Tail(q), t)
  ELSE <<t>> \o q

RECURSIVE SortedDesc(_)
SortedDesc(q) ==
  IF q = <<>> THEN <<>>
  ELSE InsertDesc(SortedDesc(SubSeq(q, 1, Len(q) - 1)), q[Len(q)])

\* all_trials: the completed trials with a value, best first, as backfilled dicts.
AllTrials(st) ==
  LET done == SelectSeq(st, LAMBDA t : t.state = "COMPLETE")
      ranked == SortedDesc(done)
  IN [i \in 1..Len(ranked) |-> Backfill(ranked[i].params)]

\* max(1, int(len(all_trials) * best_trials_pct))
TopCount(len, pct) == Max({1, (len * pct[1]) \div pct[2]})

\* all_trials[: count]
Prefix(q, count) == SubSeq(q, 1, Min({count, Len(q)}))

AttributeAll(i, fold) == fold

\* trial_params["fold_num"] = fold_num if i == 0 else np.nan   (i counts from 0)
Attribution(i, fold) == IF i = 0 THEN fold ELSE NaN

\* The dict after trial_params["fold_num"] = ...; trial_params["sharpe"] = sharpe
Validated(d, i, fold, sharpe) ==
  [d EXCEPT !.keys = @ \cup {"fold_num", "sharpe"},
            !.fold_num = Attribution(i, fold), !.sharpe = sharpe]

\* list({frozenset(d.items()): d for d in q}.values()): the distinct dicts, in
\* the order of their first occurrence.
RECURSIVE Dedup(_)
Dedup(q) ==
  IF q = <<>> THEN <<>>
  ELSE LET front == Dedup(SubSeq(q, 1, Len(q) - 1))
           d == q[Len(q)]
       IN IF \E i \in DOMAIN front : front[i] = d THEN front ELSE Append(front, d)

\* pd.DataFrame(list of dicts): the columns are the union of the keys, a cell
\* whose key is absent from its dict is NaN; to_csv writes every NaN empty.
Cell(d, key, v) == IF key \notin d.keys \/ IsNaNValue(v) THEN NaN ELSE v

FrameRow(d) ==
  [a |-> Cell(d, "a", d.a), b |-> Cell(d, "b", d.b),
   fold_num |-> Cell(d, "fold_num", d.fold_num),
   sharpe |-> Cell(d, "sharpe", d.sharpe)]

Frame(q) ==
  [columns |-> UNION {q[i].keys : i \in DOMAIN q},
   rows |-> [i \in DOMAIN q |-> FrameRow(q[i])]]

\* sort_values("sharpe", ascending=False): NaN rows last, ties in their order.
RECURSIVE InsertRowDesc(_, _)
InsertRowDesc(q, r) ==
  IF q = <<>> THEN <<r>>
  ELSE IF IsNaNValue(r.sharpe) \/ (~IsNaNValue(Head(q).sharpe) /\ Head(q).sharpe >= r.sharpe)
       THEN <<Head(q)>> \o InsertRowDesc(Tail(q), r)
       ELSE <<r>> \o q

RECURSIVE SortRowsDesc(_)
SortRowsDesc(q) ==
  IF q = <<>> THEN <<>>
  ELSE InsertRowDesc(SortRowsDesc(SubSeq(q, 1, Len(q) - 1)), q[Len(q)])

SortValuesSharpe(f) == [f EXCEPT !.rows = SortRowsDesc(@)]

\* <<save_path, file_prefix>>: the save path given to __init__, and the
\* file_prefix argument of optimize, given or left at its default None.
SaveTargets == {<<"out/", "run_">>, <<"out/", None>>}

\* optimize(params, n_jobs, n_runs, best_trials_pct, file_prefix): lines 480-483.
InitOpt ==
  /\ n_jobs \in 1..MaxJobs
  /\ n_runs \in 1..MaxRuns
  /\ best_trials_pct \in Pcts
  /\ \E target \in SaveTargets : save_path = target[1] /\ file_prefix = target[2]
  /\ opt_pc = "fold_start" /\ fold_num = 0 /\ val_i = 0
  /\ study = Empty
  /\ all_tested_params_local = Empty /\ result = Empty
  /\ all_trials = Empty /\ top_params = Empty
  /\ top_params_list = Empty /\ all_tested_params = Empty
  /\ best_params_by_fold = Empty
  /\ top_params_csv = Empty /\ all_tested_params_csv = Empty
  /\ CpcvIdle /\ AggIdle /\ StressIdle /\ RestIdle

\* Lines 515-523: the next fold of combcv_dict, its groups and a new study.
start_fold ==
  /\ opt_pc = "fold_start"
  /\ study' = Empty
  /\ opt_pc' = "search"
  /\ UNCHANGED <<optArgs, fold_num, val_i, optLocals, optSelf, cpcvVars, restVars, aggVars, stressVars>>

\* The trials a worker of study.optimize is evaluating.
Running(st) == {i \in DOMAIN st : st[i].state = "RUNNING"}

TrialsStartedNotCountingPruned(st) ==
  Cardinality({i \in DOMAIN st : st[i].state # "PRUNED"})

\* What study.optimize counts against n_trials: every trial it has started,
\* whatever became of it (a pruned trial is a trial of the study).
TrialsStarted(st) == Len(st)

\* Lines 485-509 in a free worker (study.optimize runs at most n_jobs trials at
\* a time and starts n_trials = n_runs of them): a new trial is asked of the
\* study, its value is suggested, and the duplicate check reads the study.
\* A trial records, besides what the study keeps of it (params, state, value),
\* how its objective call ended: objective.
objective_suggest ==
  /\ opt_pc = "search"
  /\ Cardinality(Running(study)) < n_jobs
  /\ TrialsStarted(study) < n_runs
  /\ \E a \in ParamValues :
       LET current_params == TrialParams(a) IN
       IF current_params \in ExistingParams(study)
       THEN study' = Append(study, [params |-> current_params, state |-> "PRUNED",
                                    value |-> 0, objective |-> "pruned"])
       ELSE study' = Append(study, [params |-> current_params, state |-> "RUNNING",
                                    value |-> 0, objective |-> "running"])
  /\ UNCHANGED <<optArgs, opt_pc, fold_num, val_i, optLocals, optSelf, cpcvVars, restVars, aggVars, stressVars>>

TrialStateNaNCompletes(value) == "COMPLETE"

\* The state study.optimize gives a trial whose objective returned value: a
\* NaN is not accepted as a value and fails the trial.
TrialStateOf(value) == IF IsNaNValue(value) THEN "FAIL" ELSE "COMPLETE"

\* Lines 511-512 for the running trial number i, and what study.optimize does
\* with the outcome: a NaN value fails the trial, any other value completes
\* it, an exception fails it and is raised again (no catch= is given).  With
\* n_jobs = 1 the exception leaves study.optimize at once; with n_jobs > 1
\* it does so only if study.optimize collects the failed future while it has
\* trials left to submit, so both outcomes are possible.
objective_score(i) ==
  /\ opt_pc = "search"
  /\ i \in Running(study)
  /\ \E outs \in [0..(NumTrainGroups - 1) -> Outcomes] :
       IF CombcvRaises(outs)
       THEN /\ study' = [study EXCEPT ![i].state = "FAIL", ![i].objective = "raised"]
            /\ \/ opt_pc' = "raised_calc_pl"
               \/ n_jobs > 1 /\ opt_pc' = opt_pc
       ELSE LET sharpe == StandaloneCombcvPl(outs, NumTrainGroups, 0) IN
            /\ study' = [study EXCEPT
                           ![i].state = TrialStateOf(sharpe),
                           ![i].value = IF IsNaNValue(sharpe) THEN 0 ELSE sharpe,
                           ![i].objective = IF IsNaNValue(sharpe) THEN "returned_nan"
                                            ELSE "returned"]
            /\ UNCHANGED opt_pc
  /\ UNCHANGED <<optArgs, fold_num, val_i, optLocals, optSelf, cpcvVars, restVars, aggVars, stressVars>>

\* Lines 530-548, once study.optimize has returned: rank, backfill, extend the
\* local ledger, take the top trials.  This is the last use of the study: the
\* model lets go of it here (line 520 replaces it in the next fold).
rank_trials ==
  /\ opt_pc = "search"
  /\ TrialsStarted(study) = n_runs
  /\ Running(study) = {}
  /\ all_trials' = AllTrials(study)
  /\ all_tested_params_local' = all_tested_params_local \o AllTrials(study)
  /\ top_params' = Prefix(AllTrials(study),
                          TopCount(Len(AllTrials(study)), best_trials_pct))
  /\ val_i' = 0
  /\ study' = Empty
  /\ opt_pc' = "validate"
  /\ UNCHANGED <<optArgs, fold_num, result, optSelf, cpcvVars, restVars, aggVars, stressVars>>

\* all_trials, top_params, result and the local ledger hold the same dict
\* objects: a write through one name shows under every other name.
WriteThrough(q, idx, d) == [q EXCEPT ![idx] = d]

\* Lines 549-557, one iteration: score top_params[val_i] on the test groups,
\* write fold_num and sharpe into the dict, append it to result.  After the
\* first fold self.top_params_list names the same list as result.
validate_trial ==
  /\ opt_pc = "validate"
  /\ val_i < Len(top_params)
  /\ \E outs \in [0..(NumTestGroups - 1) -> Outcomes] :
       IF CombcvRaises(outs)
       THEN /\ opt_pc' = "raised_calc_pl"
            /\ UNCHANGED <<val_i, optLocals, top_params_list>>
       ELSE LET sharpe == StandaloneCombcvPl(outs, NumTestGroups, Len(result))
                d == Validated(top_params[val_i + 1], val_i, fold_num, sharpe)
                base == Len(all_tested_params_local) - Len(all_trials)
            IN /\ top_params' = [top_params EXCEPT ![val_i + 1] = d]
               /\ all_trials' = WriteThrough(all_trials, val_i + 1, d)
               /\ all_tested_params_local' =
                    WriteThrough(all_tested_params_local, base + val_i + 1, d)
               /\ result' = Append(result, d)
               /\ top_params_list' =
                    IF fold_num > 0 THEN Append(result, d) ELSE top_params_list
               /\ val_i' = val_i + 1
               /\ UNCHANGED opt_pc
  /\ UNCHANGED <<optArgs, fold_num, study, save_path, all_tested_params,
                 best_params_by_fold, top_params_csv, all_tested_params_csv, cpcvVars, restVars, aggVars, stressVars>>

\* Lines 559-579: publish the fold's results and save both tables; then the
\* next fold, or the end of optimize.  top_params[0] raises IndexError when
\* the fold completed no trial.  Nothing is saved when save_path is None, and
\* self.save_path + file_prefix raises TypeError when file_prefix is None.
commit_fold ==
  /\ opt_pc = "validate"
  /\ val_i = Len(top_params)
  /\ top_params_list' = result
  /\ all_tested_params' = Dedup(all_tested_params_local)
  /\ IF top_params = <<>>
     THEN /\ opt_pc' = "raised_index_error"
          /\ UNCHANGED <<fold_num, best_params_by_fold, top_params_csv,
                         all_tested_params_csv>>
     ELSE /\ best_params_by_fold' =
               [f \in (DOMAIN best_params_by_fold) \cup {fold_num} |->
                  IF f = fold_num THEN top_params[1] ELSE best_params_by_fold[f]]
          /\ IF save_path # None /\ file_prefix = None
             THEN /\ opt_pc' = "raised_type_error"
                  /\ UNCHANGED <<fold_num, top_params_csv, all_tested_params_csv>>
             ELSE /\ IF save_path # None
                     THEN /\ top_params_csv' = SortValuesSharpe(Frame(result))
                          /\ all_tested_params_csv' = Frame(Dedup(all_tested_params_local))
                     ELSE UNCHANGED <<top_params_csv, all_tested_params_csv>>
                  /\ fold_num' = fold_num + 1
                  /\ opt_pc' = IF fold_num + 1 < NumFolds THEN "fold_start" ELSE "done"
  /\ UNCHANGED <<optArgs, val_i, study, optLocals, save_path, cpcvVars, restVars,
                 aggVars, stressVars>>

NextOpt ==
  \/ start_fold
  \/ objective_suggest
  \/ \E i \in 1..MaxRuns : objective_score(i)
  \/ rank_trials
  \/ validate_trial
  \/ commit_fold

SpecOpt == InitOpt /\ [][NextOpt]_vars

(***************************************************************************)
(* ------------------------- cluster_and_aggregate ----------------------- *)
(* best_param_set is a parameter dict with one more field, unit: a numeric *)
(* field holds its value times unit (a mean is kept as the sum, unit the   *)
(* number of values averaged).                                             *)
(***************************************************************************)

\* max(3, len(param_df) // 3)
MinMaxClusters == 3

\* if max_clusters > 2
ClusteringAbove == 2

\* The validation scores a pool entry may carry (NaN: every test group empty).
PoolSharpes == {ScoreScale * v : v \in SharpeValues} \cup {NaN}

\* A validated trial as optimize leaves it in top_params_list.
PoolDicts ==
  {[keys |-> {"a", "b", "fold_num", "sharpe"}, a |-> a, b |-> FixedB,
    fold_num |-> f, sharpe |-> sh] :
     a \in ParamValues, f \in {0, NaN}, sh \in PoolSharpes}

Pools == UNION {[1..len -> PoolDicts] : len \in 1..MaxPool}

\* min(max(3, len(param_df) // 3), len(param_df))
MaxClusters(len) == Min({Max({MinMaxClusters, len \div 3}), len})

\* find_optimal_clusters returns np.argmin(second_derivative) + 2, and the
\* second derivative of the WCSS has max_clusters - 2 entries; with
\* max_clusters = len(param_df) the count is max_clusters itself.
ClusterCounts(len) ==
  IF MaxClusters(len) < len THEN 2..(MaxClusters(len) - 1) ELSE {MaxClusters(len)}

\* AgglomerativeClustering(n_clusters=c).fit_predict: some labelling of the
\* rows that uses every label 0..c-1.
Labellings(len, c) ==
  {lab \in [1..len -> 0..(c - 1)] : \A x \in 0..(c - 1) : \E i \in 1..len : lab[i] = x}

\* clustered_params[c]: the pool entries labelled c, in pool order.
RECURSIVE Members(_, _, _)
Members(pool, lab, c) ==
  IF pool = <<>> THEN <<>>
  ELSE LET front == Members(SubSeq(pool, 1, Len(pool) - 1), lab, c)
       IN IF lab[Len(pool)] = c THEN Append(front, pool[Len(pool)]) ELSE front

SharpesOf(q) == [i \in DOMAIN q |-> q[i].sharpe]

HasNaN(vals) == \E i \in DOMAIN vals : IsNaNValue(vals[i])

\* np.mean(x) > np.mean(y) on two non-empty lists; a NaN mean compares False.
MeanGreater(x, y) ==
  /\ ~HasNaN(x) /\ ~HasNaN(y)
  /\ SumSeq(x) * Len(y) > SumSeq(y) * Len(x)

\* max(clustered_params.keys(), key=mean sharpe): the first key stays the
\* maximum until a later key compares greater.
RECURSIVE BestCluster(_, _, _, _)
BestCluster(pool, lab, c, nclusters) ==
  IF c = 0 THEN 0
  ELSE LET best == BestCluster(pool, lab, c - 1, nclusters)
       IN IF MeanGreater(SharpesOf(Members(pool, lab, c)),
                         SharpesOf(Members(pool, lab, best)))
          THEN c ELSE best

\* np.mean(values) as its sum over Len(values) units; NaN when a value is NaN.
MeanTimesLen(vals) == IF HasNaN(vals) THEN NaN ELSE SumSeq(vals)

\* aggregate_params: every key of the first dict, each field numeric here.
AggregateParams(params_list) ==
  [keys |-> params_list[1].keys,
   a |-> MeanTimesLen([i \in DOMAIN params_list |-> params_list[i].a]),
   b |-> MeanTimesLen([i \in DOMAIN params_list |-> params_list[i].b]),
   fold_num |-> MeanTimesLen([i \in DOMAIN params_list |-> params_list[i].fold_num]),
   sharpe |-> MeanTimesLen([i \in DOMAIN params_list |-> params_list[i].sharpe]),
   unit |-> Len(params_list)]

RowAsDict(f, r) ==
  [keys |-> f.columns, a |-> f.rows[r].a, b |-> f.rows[r].b,
   fold_num |-> f.rows[r].fold_num, sharpe |-> f.rows[r].sharpe, unit |-> 1]

\* pd.DataFrame(self.top_params_list).iloc[0].to_dict()
FirstRow(pool) == RowAsDict(Frame(pool), 1)

InitAgg ==
  /\ agg_pc = "new" /\ best_param_set = Empty
  /\ top_params_list = Empty /\ all_tested_params = Empty
  /\ OptIdleLocals /\ CpcvIdle /\ StressIdle /\ RestIdle

\* load_best_params(params=pool): lines 589-590.
load_best_params ==
  /\ agg_pc = "new"
  /\ \E pool \in Pools : top_params_list' = pool
  /\ agg_pc' = "loaded"
  /\ UNCHANGED <<best_param_set, cpcvVars, restVars, stressVars, optArgs, opt_pc, fold_num,
                 val_i, study, optLocals, save_path, all_tested_params,
                 best_params_by_fold, top_params_csv, all_tested_params_csv>>

\* cluster_and_aggregate for a list: lines 760-823.
cluster_and_aggregate ==
  /\ agg_pc = "loaded"
  /\ LET len == Len(top_params_list) IN
     IF MaxClusters(len) > ClusteringAbove
     THEN \E best_n_clusters \in ClusterCounts(len) :
          \E cluster_labels \in Labellings(len, best_n_clusters) :
            LET best_cluster == BestCluster(top_params_list, cluster_labels,
                                            best_n_clusters - 1, best_n_clusters)
            IN best_param_set' =
                 AggregateParams(Members(top_params_list, cluster_labels, best_cluster))
     ELSE best_param_set' = FirstRow(top_params_list)
  /\ agg_pc' = "done"
  /\ UNCHANGED <<cpcvVars, restVars, stressVars, optVars>>

NextAgg ==
  \/ load_best_params
  \/ cluster_and_aggregate

SpecAgg == InitAgg /\ [][NextAgg]_vars

(***************************************************************************)
(* --------------------------- run_stress_tests -------------------------- *)
(* A return series is the set of the days of its index.                    *)
(***************************************************************************)

\* The days a return series of calc_pl may cover.
Days == {1, 2, 3}

\* What calc_pl(train_data, params) does for one trial of the ledger.
StressOutcomes ==
  {[kind |-> "raise", days |-> {}], [kind |-> "empty", days |-> {}]}
    \cup {[kind |-> "series", days |-> d] : d \in (SUBSET Days) \ {{}}}

\* The ledger entries: plain trials and validated ones, as optimize leaves them.
LedgerDicts ==
  {Backfill(TrialParams(a)) : a \in ParamValues}
    \cup {Validated(Backfill(TrialParams(a)), 0, 0, ScoreScale) : a \in ParamValues}

\* The ledgers: lists without repetition (line 562 removes equal dicts).
Ledgers ==
  UNION {{q \in [1..len -> LedgerDicts] : \A i, j \in 1..len : i # j => q[i] # q[j]} :
           len \in 0..MaxLedger}

\* returns.resample("D").sum(): one row per day from the first to the last.
Resample(days) == Min(days)..Max(days)

CalcReturnsNoHandler(out) ==
  IF out.kind = "raise" THEN [raised |-> TRUE, done |-> TRUE, series |-> {}]
  ELSE IF out.days = {} THEN [raised |-> FALSE, done |-> TRUE, series |-> {}]
  ELSE [raised |-> FALSE, done |-> TRUE, series |-> Resample(out.days)]

\* calc_returns: an exception of calc_pl is caught and gives pd.Series().
CalcReturns(out) ==
  IF out.kind = "raise" THEN [raised |-> FALSE, done |-> TRUE, series |-> {}]
  ELSE IF out.days = {} THEN [raised |-> FALSE, done |-> TRUE, series |-> {}]
  ELSE [raised |-> FALSE, done |-> TRUE, series |-> Resample(out.days)]

\* results = [r for r in results if not r.empty], as the trials they came from.
RECURSIVE NonEmpty(_)
NonEmpty(res) ==
  IF res = <<>> THEN <<>>
  ELSE LET front == NonEmpty(SubSeq(res, 1, Len(res) - 1))
       IN IF res[Len(res)].series # {} THEN Append(front, Len(res)) ELSE front

\* pd.concat(results, axis=1).dropna(): one column per series, the rows on
\* which every column has a value.
Panel(res, cols) ==
  [handed |-> TRUE, columns |-> cols,
   index |-> {d \in Days : \A i \in DOMAIN cols : d \in res[cols[i]].series}]

NoPanel == [handed |-> FALSE, columns |-> <<>>, index |-> {}]

\* run_stress_tests up to the pool: lines 671-679.
InitStress ==
  /\ all_tested_params \in Ledgers
  /\ stress_pc = "map"
  /\ calc_pl_outcome = [i \in DOMAIN all_tested_params |-> "pending"]
  /\ results = [i \in DOMAIN all_tested_params |->
                  [raised |-> FALSE, done |-> FALSE, series |-> {}]]
  /\ result_df = NoPanel
  /\ top_params_list = Empty
  /\ OptIdleLocals /\ CpcvIdle /\ AggIdle /\ RestIdle

\* One task of pool.imap(calc_returns, args): lines 84-95 for trial i.  An
\* exception that leaves the task is raised again in run_stress_tests.
calc_returns(i) ==
  /\ stress_pc = "map"
  /\ i \in DOMAIN results /\ ~results[i].done
  /\ \E out \in StressOutcomes :
       /\ calc_pl_outcome' = [calc_pl_outcome EXCEPT ![i] = out.kind]
       /\ results' = [results EXCEPT ![i] = CalcReturns(out)]
       /\ stress_pc' = IF CalcReturns(out).raised THEN "raised" ELSE "map"
  /\ UNCHANGED <<result_df, cpcvVars, restVars, aggVars, optVars>>

\* Lines 688-693: drop the empty series; build the panel and hand it to the
\* stress-test battery when a series is left.
hand_to_battery ==
  /\ stress_pc = "map"
  /\ \A i \in DOMAIN results : results[i].done
  /\ result_df' = IF NonEmpty(results) # <<>>
                  THEN Panel(results, NonEmpty(results)) ELSE NoPanel
  /\ stress_pc' = "done"
  /\ UNCHANGED <<calc_pl_outcome, results, cpcvVars, restVars, aggVars, optVars>>

NextStress ==
  \/ \E i \in 1..MaxLedger : calc_returns(i)
  \/ hand_to_battery

SpecStress == InitStress /\ [][NextStress]_vars

(***************************************************************************)
(* ----------------------- reconstruct_equity_curves --------------------- *)
(* A path matrix is a record: shape0 rows, shape1 columns, cell[t, p].  A  *)
(* return series is the ascending list of the row positions it covers.     *)
(***************************************************************************)

\* The tickers of self.backtest_paths: 1..NumTickers of them.
NumTickers == 2

\* self.backtest_paths[ticker] = paths, the array cpcv_generator returns.
CpcvPaths(ts, nn, kk) ==
  LET gn == GroupNum(ts, nn)
      tg == TestGroups(nn, kk)
      np == NPaths(Cardinality(DOMAIN tg), kk, nn)
      pf == PathFolds(nn, np, tg)
  IN [shape0 |-> ts, shape1 |-> np, cell |-> Paths(ts, nn, np, gn, pf)]

\* The path matrices of the calls cpcv_generator(ts, nn, kk), 1 <= kk <= nn <= ts.
PathMatrices ==
  {CpcvPaths(ts, nn, kk) :
     <<ts, nn, kk>> \in {x \in (1..MaxPathRows) \X (1..MaxPathGroups) \X (1..MaxPathGroups) :
                           x[3] <= x[2] /\ x[2] <= x[1]}}

\* The values of arr[:, col].
ColumnValues(arr, col) == {arr.cell[t, col] : t \in 0..(arr.shape0 - 1)}

\* A finite set of integers as the list of its elements in ascending order.
RECURSIVE Ascending(_)
Ascending(S) ==
  IF S = {} THEN <<>> ELSE <<Min(S)>> \o Ascending(S \ {Min(S)})

\* np.unique(arr[:, col]): the distinct values in ascending order, NaN last.
NpUnique(arr, col) ==
  Ascending({v \in ColumnValues(arr, col) : ~IsNaNValue(v)})
    \o (IF NaN \in ColumnValues(arr, col) THEN <<NaN>> ELSE <<>>)

\* set(np.unique(a[:, col])) == set(np.unique(b[:, col])): the elements are
\* numpy scalars made anew for each set, and a NaN is equal to no other
\* object, so two sets are unequal as soon as one of them holds a NaN.
SameUniqueSet(a, b, col) ==
  /\ NaN \notin ColumnValues(a, col)
  /\ NaN \notin ColumnValues(b, col)
  /\ ColumnValues(a, col) = ColumnValues(b, col)

\* np.where(path_array[:, path_num] == fold)[0]
TestIndices(arr, p, fold) ==
  Ascending({t \in 0..(arr.shape0 - 1) : arr.cell[t, p] = fold})

\* pd.concat(path_returns): the series one after another, in list order.
RECURSIVE Concat(_)
Concat(q) == IF q = <<>> THEN <<>> ELSE Head(q) \o Concat(Tail(q))

\* Every fold id a path matrix may hold.
ReconFolds ==
  UNION {{v \in ColumnValues(m, p) : ~IsNaNValue(v)} :
           <<m, p>> \in {x \in PathMatrices \X (0..MaxPathRows) : x[2] < x[1].shape1}}

\* self.best_params_by_fold after optimize has attributed every fold.
BestParamsOfAllFolds ==
  [f \in ReconFolds |-> Validated(Backfill(TrialParams(1)), 0, f, ScoreScale)]

\* The optimizer when reconstruct_equity_curves is called: path matrices for
\* one or more tickers, best_params_by_fold filled by optimize or still {}.
InitRecon ==
  /\ backtest_paths \in UNION {[1..nt -> PathMatrices] : nt \in 1..NumTickers}
  /\ best_params_by_fold \in {BestParamsOfAllFolds, Empty}
  /\ rec_pc = "call" /\ path_num = 0
  /\ unique_folds = Empty /\ calc_pl_calls = Empty
  /\ path_returns = Empty /\ final_returns = Empty
  /\ n_jobs = 0 /\ n_runs = 0 /\ best_trials_pct = <<0, 1>>
  /\ file_prefix = None /\ save_path = None
  /\ opt_pc = "off" /\ fold_num = 0 /\ val_i = 0 /\ study = Empty
  /\ all_tested_params_local = Empty /\ result = Empty
  /\ all_trials = Empty /\ top_params = Empty
  /\ top_params_list = Empty /\ all_tested_params = Empty
  /\ top_params_csv = Empty /\ all_tested_params_csv = Empty
  /\ CpcvIdle /\ AggIdle /\ StressIdle /\ AgpIdle /\ ReadIdle /\ CombcvIdle

reconOthers == <<cpcvVars, optVars, aggVars, stressVars, agpVars, readVars, combcvVars>>

\* Lines 601-621: the two consistency checks on the tickers' arrays, then the
\* head of the path loop for path 0.
check_paths ==
  /\ rec_pc = "call"
  /\ LET arrays == backtest_paths
         num_columns == arrays[1].shape1
     IN IF \E i \in DOMAIN arrays : arrays[i].shape1 # num_columns
        THEN /\ rec_pc' = "raised_columns"
             /\ UNCHANGED unique_folds
        ELSE IF \E col \in 0..(num_columns - 1) : \E i \in 2..Len(arrays) :
                  ~SameUniqueSet(arrays[1], arrays[i], col)
        THEN /\ rec_pc' = "raised_folds"
             /\ UNCHANGED unique_folds
        ELSE /\ rec_pc' = "paths"
             /\ unique_folds' = NpUnique(arrays[1], 0)
  /\ UNCHANGED <<backtest_paths, path_num, calc_pl_calls, path_returns,
                 final_returns, reconOthers>>

\* Lines 622-630, one iteration of the fold loop: int(fold) raises ValueError
\* for a NaN, best_params_by_fold[fold] KeyError for a missing fold, and an
\* exception of calc_pl leaves reconstruct_equity_curves (no handler).
evaluate_fold ==
  /\ rec_pc = "paths"
  /\ unique_folds # <<>>
  /\ LET fold == Head(unique_folds) IN
     IF IsNaNValue(fold)
     THEN /\ rec_pc' = "raised_int_nan"
          /\ UNCHANGED <<unique_folds, calc_pl_calls, path_returns>>
     ELSE IF fold \notin DOMAIN best_params_by_fold
     THEN /\ rec_pc' = "raised_key_error"
          /\ UNCHANGED <<unique_folds, calc_pl_calls, path_returns>>
     ELSE /\ calc_pl_calls' = Append(calc_pl_calls, <<path_num, fold>>)
          /\ \/ /\ rec_pc' = "raised_calc_pl"
                /\ UNCHANGED <<unique_folds, path_returns>>
             \/ /\ path_returns' =
                     Append(path_returns, TestIndices(backtest_paths[1], path_num, fold))
                /\ unique_folds' = Tail(unique_folds)
                /\ UNCHANGED rec_pc
  /\ UNCHANGED <<backtest_paths, path_num, final_returns, reconOthers>>

\* Lines 632-635 and the head of the next iteration of the path loop (618-621),
\* or the end of the loop (the metrics and the plot, lines 637-662).
finish_path ==
  /\ rec_pc = "paths"
  /\ unique_folds = <<>>
  /\ final_returns' = Append(final_returns, Concat(path_returns))
  /\ path_returns' = <<>>
  /\ IF path_num + 1 < backtest_paths[1].shape1
     THEN /\ path_num' = path_num + 1
          /\ unique_folds' = NpUnique(backtest_paths[1], path_num + 1)
          /\ UNCHANGED rec_pc
     ELSE /\ rec_pc' = "done"
          /\ UNCHANGED <<path_num, unique_folds>>
  /\ UNCHANGED <<backtest_paths, calc_pl_calls, reconOthers>>

NextRecon ==
  \/ check_paths
  \/ evaluate_fold
  \/ finish_path

SpecRecon == InitRecon /\ [][NextRecon]_vars

(***************************************************************************)
(* --------------------------- create_combcv_dict ------------------------ *)
(* A ticker's training series is known by its number of rows; an index     *)
(* range (a numpy array of positions) is the list of its positions.        *)
(***************************************************************************)

\* len(df) > total_comb * 50  (line 441)
RowsPerCombination == 50

\* len(df) of a ticker of self.train_data.
TickerLens ==
  {m * RowsPerCombination + d : m \in 0..MaxMultiple, d \in 0..MaxExtraRows}

\* math.comb(nn, kk): zero when kk > nn.
MathComb(nn, kk) ==
  IF kk > nn THEN 0 ELSE Fact(nn) \div (Fact(kk) * Fact(nn - kk))

\* np.arange(len)
Arange(len) == [i \in 1..len |-> i - 1]

\* np.where(is_test[:, c] == flag)[0] for the is_test array of ts rows.
Where(it, ts, c, flag) == SelectSeq(Arange(ts), LAMBDA t : it[t, c] = flag)

\* split_consecutive (lines 409-422): split_points are the indices whose
\* element is not its predecessor plus 1, np.split cuts arr before each of
\* them; an array without split points (an empty one too) is one chunk.
SplitConsecutive(arr) ==
  LET split_points ==
        SelectSeq([i \in 1..(Len(arr) - 1) |-> i], LAMBDA i : arr[i + 1] - arr[i] # 1)
      chunks == Len(split_points) + 1
  IN [j \in 1..chunks |->
        SubSeq(arr, (IF j = 1 THEN 0 ELSE split_points[j - 1]) + 1,
                    IF j = chunks THEN Len(arr) ELSE split_points[j])]

\* Lines 450-460 for one ticker with len(df) = ts and one combination c.
TrainTest(ts, nn, kk, c) ==
  LET it == IsTest(ts, GroupNum(ts, nn), TestGroups(nn, kk))
  IN [train |-> SplitConsecutive(Where(it, ts, c, FALSE)),
      test |-> SplitConsecutive(Where(it, ts, c, TRUE))]

\* A new ParameterOptimizer whose train_data is loaded; the arguments of the call.
InitCombcv ==
  /\ train_data \in [1..NumTickers -> TickerLens]
  /\ n_splits \in 0..MaxSplits
  /\ n_test_splits \in 0..MaxSplits
  /\ cv_pc = "call"
  /\ combcv_dict = Empty
  /\ ReconIdle /\ AgpIdle /\ ReadIdle
  /\ CpcvIdle /\ OptIdle /\ AggIdle /\ StressIdle

\* create_combcv_dict(n_splits, n_test_splits): lines 424-460.  A ticker with
\* too few rows for the number of combinations is passed over.
create_combcv_dict ==
  /\ cv_pc = "call"
  /\ LET total_comb == MathComb(n_splits, n_test_splits) IN
     IF n_test_splits = 0 \/ n_splits = 0
     THEN /\ combcv_dict' =
               [c \in {0} |->
                  [ticker \in DOMAIN train_data |->
                     [train |-> <<Arange(train_data[ticker])>>, test |-> None]]]
          /\ UNCHANGED backtest_paths
     ELSE LET split == {ticker \in DOMAIN train_data :
                          train_data[ticker] > total_comb * RowsPerCombination}
              combinations == IF split = {} THEN {} ELSE 0..(total_comb - 1)
          IN /\ backtest_paths' =
                  [ticker \in split |->
                     CpcvPaths(train_data[ticker], n_splits, n_test_splits)]
             /\ combcv_dict' =
                  [c \in combinations |->
                     [ticker \in split |->
                        TrainTest(train_data[ticker], n_splits, n_test_splits, c)]]
  /\ cv_pc' = "done"
  /\ UNCHANGED <<train_data, n_splits, n_test_splits>>
  /\ UNCHANGED <<rec_pc, path_num, unique_folds, calc_pl_calls, path_returns,
                 final_returns, agpVars, readVars, cpcvVars, optVars, aggVars,
                 stressVars>>

NextCombcv == create_combcv_dict

SpecCombcv == InitCombcv /\ [][NextCombcv]_vars

(***************************************************************************)
(* ---------------------------- aggregate_params ------------------------- *)
(* A trial here has one parameter of each kind the function tells apart:   *)
(* num (int or float, NaN allowed), flag (bool), cat (str), vec (list of   *)
(* numbers).  A mean is kept as [sum, unit]: the sum of the values and the *)
(* number of values averaged.                                              *)
(***************************************************************************)

\* The length of a list-valued parameter.
VecLen == 2

ClusterTrials ==
  [num : {1, 2, NaN}, flag : BOOLEAN, cat : {"x", "y"},
   vec : [1..VecLen -> {1, 2}]]

\* values.count(v)
Count(values, v) == Cardinality({i \in DOMAIN values : values[i] = v})

\* The values that max(set(values), key=values.count) may return: a most
\* frequent one.
Modes(values) ==
  {v \in Range(values) : \A w \in Range(values) : Count(values, w) <= Count(values, v)}

\* max(set(values), key=values.count) on bools: max keeps the first maximum,
\* and a set of bools is iterated False first.
ModeOfBools(values) == IF FALSE \in Modes(values) THEN FALSE ELSE TRUE

MeanFlattened(values) ==
  [sum |-> [j \in 1..VecLen |-> SumSeq([i \in DOMAIN values |-> SumSeq(values[i])])],
   unit |-> Len(values) * VecLen]

\* list(np.mean(values, axis=0)): the mean of every position of the lists.
MeanAxis0(values) ==
  [sum |-> [j \in 1..VecLen |-> SumSeq([i \in DOMAIN values |-> values[i][j]])],
   unit |-> Len(values)]

\* np.mean(values) on numbers.
MeanOfNumbers(values) == [sum |-> MeanTimesLen(values), unit |-> Len(values)]

InitAgp ==
  /\ cluster_params \in UNION {[1..len -> ClusterTrials] : len \in 1..MaxCluster}
  /\ agp_pc = "call" /\ aggregated = Empty
  /\ ReconIdle /\ ReadIdle /\ CombcvIdle /\ OptIdle /\ CpcvIdle /\ AggIdle /\ StressIdle

\* aggregate_params(params_list): lines 854-865.  The branch of a key is
\* chosen by the type of its first value, bool before number.  The most
\* frequent str is any of the most frequent ones when there are several (the
\* iteration order of a set of str is not fixed).
aggregate_params ==
  /\ agp_pc = "call"
  /\ \E c \in Modes([i \in DOMAIN cluster_params |-> cluster_params[i].cat]) :
       aggregated' =
         [num |-> MeanOfNumbers([i \in DOMAIN cluster_params |-> cluster_params[i].num]),
          flag |-> ModeOfBools([i \in DOMAIN cluster_params |-> cluster_params[i].flag]),
          cat |-> c,
          vec |-> MeanAxis0([i \in DOMAIN cluster_params |-> cluster_params[i].vec])]
  /\ agp_pc' = "done"
  /\ UNCHANGED <<cluster_params, reconVars, readVars, combcvVars, cpcvVars, optVars, aggVars,
                 stressVars>>

NextAgp == aggregate_params

SpecAgp == InitAgp /\ [][NextAgp]_vars

(***************************************************************************)
(* ---------------------------- read_saved_params ------------------------ *)
(* The two tables are the frames optimize saved.  to_csv writes a number   *)
(* as its digits and read_csv parses the digits back to the same number; a *)
(* NaN and a cell whose key the dict lacked are both written empty, and an *)
(* empty cell is read as NaN.                                              *)
(***************************************************************************)

\* A cell of a frame as a field of a dict record (0 when the frame has no
\* such column).
Field(f, r, key) == IF key \in f.columns THEN f.rows[r][key] ELSE 0

\* df.to_dict("records"): one dict per row, its keys the columns.
ToDictRecords(f) ==
  [r \in DOMAIN f.rows |->
     [keys |-> f.columns, a |-> Field(f, r, "a"), b |-> Field(f, r, "b"),
      fold_num |-> Field(f, r, "fold_num"), sharpe |-> Field(f, r, "sharpe")]]

\* df.drop(columns=["fold_num"])
DropFoldNum(f) ==
  [columns |-> f.columns \ {"fold_num"},
   rows |-> [r \in DOMAIN f.rows |-> [f.rows[r] EXCEPT !.fold_num = NaN]]]

DropFalsyFoldNum(f) ==
  [f EXCEPT !.rows = SelectSeq(@, LAMBDA row : ~IsNaNValue(row.fold_num)
                                               /\ row.fold_num # 0)]

\* df.dropna(subset="fold_num"): the rows whose fold_num is not NaN.
DropnaFoldNum(f) ==
  [f EXCEPT !.rows = SelectSeq(@, LAMBDA row : ~IsNaNValue(row.fold_num))]

\* for tp in top_params_list: self.best_params_by_fold[tp["fold_num"]] = tp
RECURSIVE ByFold(_)
ByFold(q) ==
  IF q = <<>> THEN <<>>
  ELSE LET front == ByFold(SubSeq(q, 1, Len(q) - 1))
           tp == q[Len(q)]
       IN [f \in (DOMAIN front) \cup {tp.fold_num} |->
             IF f = tp.fold_num THEN tp ELSE front[f]]

\* read_saved_params(file_prefix) on a new ParameterOptimizer, once optimize
\* has ended (returned or raised): lines 871-879.  read_csv raises when
\* optimize ended before it saved a table.
read_saved_params ==
  /\ read_pc = "off"
  /\ opt_pc \in {"done", "raised_calc_pl", "raised_index_error", "raised_type_error"}
  /\ IF top_params_csv = Empty
     THEN /\ read_pc' = "raised_file_not_found"
          /\ UNCHANGED reloaded
     ELSE LET top_params_df == top_params_csv IN
          /\ reloaded' =
               [top_params_list |-> DropFoldNum(top_params_df),
                all_tested_params |-> ToDictRecords(all_tested_params_csv),
                best_params_by_fold |->
                  ByFold(ToDictRecords(DropnaFoldNum(top_params_df)))]
          /\ read_pc' = "done"
  /\ UNCHANGED <<reconVars, agpVars, combcvVars, cpcvVars, optVars, aggVars, stressVars>>

NextReload ==
  \/ NextOpt
  \/ read_saved_params

\* optimize, then read_saved_params.
SpecReload == InitOpt /\ [][NextReload]_vars

(***************************************************************************)
(* Claims about optimize (checked under SpecOpt).                          *)
(***************************************************************************)

\* C1: within one fold's search no two scored (COMPLETE) trials have the same
\* parameter assignment, for every n_jobs and every interleaving.
C1_NoTwoScoredTrialsAlike ==
  \A i, j \in DOMAIN study :
    (i # j /\ study[i].state = "COMPLETE" /\ study[j].state = "COMPLETE")
      => study[i].params # study[j].params

\* The parameter assignment of a dict: its entries other than fold_num, sharpe.
ParamsOf(d) ==
  [keys |-> d.keys \ {"fold_num", "sharpe"}, a |-> d.a, b |-> d.b]

\* C6: the ledger all_tested_params holds no two entries with the same
\* parameter assignment, and every entry carries only parameter columns.
C6_LedgerDistinctParameterSets ==
  /\ \A i, j \in DOMAIN all_tested_params :
       i # j => ParamsOf(all_tested_params[i]) # ParamsOf(all_tested_params[j])
  /\ \A i \in DOMAIN all_tested_params :
       all_tested_params[i].keys \subseteq {"a", "b"}

\* The entries of top_params_list that carry fold attribution f.
AttributedTo(f) ==
  {i \in DOMAIN top_params_list :
     /\ "fold_num" \in top_params_list[i].keys
     /\ top_params_list[i].fold_num = f}

\* C8: for every fold f that optimize has finished, exactly one entry of
\* top_params_list carries fold attribution f and best_params_by_fold[f] is
\* that entry; when a fold has just been finished, that entry is the first
\* (top-ranked) of the fold's validated trials and the other validated trials
\* of the fold are in top_params_list with a NaN fold attribution.
C8_OneAttributedTrialPerFold ==
  /\ \A f \in DOMAIN best_params_by_fold :
       /\ Cardinality(AttributedTo(f)) = 1
       /\ \A i \in AttributedTo(f) : top_params_list[i] = best_params_by_fold[f]
  /\ (opt_pc \in {"fold_start", "done"} /\ fold_num > 0) =>
       LET len == Len(top_params_list)
           m == Len(top_params)
       IN /\ m >= 1 /\ m <= len
          /\ SubSeq(top_params_list, len - m + 1, len) = top_params
          /\ top_params[1] = best_params_by_fold[fold_num - 1]
          /\ top_params[1].fold_num = fold_num - 1
          /\ \A i \in 2..m :
               "fold_num" \in top_params[i].keys /\ top_params[i].fold_num = NaN

\* Both folds finished, the last with two validated trials.
C8_Witness ==
  /\ opt_pc = "done" /\ fold_num = NumFolds
  /\ Len(top_params) >= 2
  /\ DOMAIN best_params_by_fold = 0..(NumFolds - 1)

\* C9: a raise of the evaluation function for a training or validation group
\* never aborts optimize: the search goes on with the other trials and folds.
C9_EvaluationFailureDoesNotAbort ==
  opt_pc # "raised_calc_pl"

\* The trials of the fold's study that were scored (state COMPLETE).
Completed == {i \in DOMAIN study : study[i].state = "COMPLETE"}

\* The step in which study.optimize has returned and the top trials are taken.
BudgetExhausted == opt_pc = "search" /\ opt_pc' = "validate"

\* top_params' is made of `count` completed trials, listed by descending
\* training score, and no completed trial left out has a higher score.
TopRankedPrefix(count) ==
  /\ Len(top_params') = count
  /\ \E idx \in [1..count -> Completed] :
       /\ \A i, j \in 1..count : i # j => idx[i] # idx[j]
       /\ \A i \in 1..count : top_params'[i] = Backfill(study[idx[i]].params)
       /\ \A i, j \in 1..count : i < j => study[idx[i]].value >= study[idx[j]].value
       /\ \A i \in 1..count : \A j \in Completed :
            (\A h \in 1..count : idx[h] # j) => study[j].value <= study[idx[i]].value

\* C12: when a fold's trial budget is exhausted, the trials taken for
\* validation are exactly max(1, floor(best_trials_pct * completed_count))
\* completed trials, those with the highest training scores in descending
\* order, for every completed_count including 0 and 1.
C12_TopTrialsAreRankedPrefix ==
  [][BudgetExhausted =>
       TopRankedPrefix(Max({1, (Cardinality(Completed) * best_trials_pct[1])
                                 \div best_trials_pct[2]}))]_vars

\* The trials whose objective returned a valid (non-NaN) training score.
ValidlyScored == {i \in DOMAIN study : study[i].objective = "returned"}

\* C14: a trial whose training score is NaN (every training group returned an
\* empty series) is never a completed trial of its study, and the trials taken
\* for validation when the budget is exhausted, the first of which becomes the
\* fold's attributed best trial, all have a valid training score.
C14_NaNScoredTrialNeverWins ==
  [][/\ \A i \in DOMAIN study' :
          study'[i].objective = "returned_nan" => study'[i].state = "FAIL"
     /\ BudgetExhausted =>
          \E idx \in [DOMAIN top_params' -> ValidlyScored] :
            /\ \A x, y \in DOMAIN top_params' : x # y => idx[x] # idx[y]
            /\ \A x \in DOMAIN top_params' :
                 top_params'[x] = Backfill(study[idx[x]].params)
     /\ \A f \in DOMAIN best_params_by_fold' :
          f \notin DOMAIN best_params_by_fold =>
            (top_params # <<>> /\ best_params_by_fold'[f] = top_params[1])]_vars

\* A fold's search with a NaN-scored trial and a validly scored one.
C14_Witness ==
  /\ \E i \in DOMAIN study : study[i].objective = "returned_nan"
  /\ \E i \in DOMAIN study : study[i].objective = "returned"
  /\ Len(study) = n_runs /\ Running(study) = {}

\* The trials for which the evaluation function was invoked, and the trials
\* discarded as duplicates.
Scored(st) == {i \in DOMAIN st : st[i].objective \in {"raised", "returned_nan", "returned"}}
Discarded(st) == {i \in DOMAIN st : st[i].objective = "pruned"}

\* C18: a fold's search ends with exactly n_runs trials started; a trial
\* discarded as a duplicate stays as it is (never scored), and the next
\* proposal is a further trial, not a replacement, so that scored plus
\* discarded trials never exceed n_runs.
C18_DuplicateConsumesBudget ==
  [][/\ BudgetExhausted => Len(study) = n_runs
     /\ Cardinality(Scored(study')) + Cardinality(Discarded(study')) <= n_runs
     /\ \A i \in Discarded(study) :
          study' # Empty => study'[i] = study[i] /\ study[i].state = "PRUNED"
     /\ Len(study') > Len(study) =>
          /\ Len(study') = Len(study) + 1
          /\ SubSeq(study', 1, Len(study)) = study]_vars

\* A search that is over with a discarded duplicate and fewer than n_runs
\* scored trials.
C18_Witness ==
  /\ opt_pc = "search"
  /\ Len(study) = n_runs /\ Running(study) = {}
  /\ Discarded(study) # {}
  /\ Cardinality(Scored(study)) < n_runs

\* The fold ids that the rows of the saved top table are attributed to.
SavedFolds(f) == {f.rows[r].fold_num : r \in DOMAIN f.rows} \ {NaN}

\* Both tables on disk hold what optimize has gathered: a row for every
\* validated trial, the attributed folds 0..folds-1, a row for every ledger entry.
TablesHold(top, ledger, validated, tested, folds) ==
  /\ top # Empty /\ ledger # Empty
  /\ Len(top.rows) = Len(validated)
  /\ \A i \in DOMAIN validated : \E r \in DOMAIN top.rows : top.rows[r] = FrameRow(validated[i])
  /\ SavedFolds(top) = 0..(folds - 1)
  /\ \A i \in DOMAIN tested : \E r \in DOMAIN ledger.rows : ledger.rows[r] = FrameRow(tested[i])

\* C17: with a save path configured the folds are processed one after the
\* other, and every fold whose trials are validated and attributed is followed
\* by a save of both tables before the next fold's search: the step that ends
\* fold i writes tables holding the validated trials and the ledger entries of
\* folds 0..i, no other step touches the tables (a crash in fold i+1 leaves
\* folds 0..i on disk), and a search starts only with all earlier folds saved.
C17_EveryFoldSavedBeforeTheNext ==
  [][/\ fold_num' # fold_num =>
          /\ fold_num' = fold_num + 1
          /\ TablesHold(top_params_csv', all_tested_params_csv', result',
                        all_tested_params_local', fold_num')
     /\ fold_num' = fold_num => UNCHANGED <<top_params_csv, all_tested_params_csv>>
     /\ (opt_pc = "validate" /\ val_i = Len(top_params) /\ top_params # <<>>) =>
          fold_num' = fold_num + 1
     /\ (opt_pc' = "search" /\ fold_num' > 0) =>
          SavedFolds(top_params_csv') = 0..(fold_num' - 1)]_vars

(***************************************************************************)
(* Claims about cpcv_generator (checked under SpecCpcv).                   *)
(***************************************************************************)

\* C(nn, kk) by Pascal's rule, independent of the enumeration above.
RECURSIVE Binom(_, _)
Binom(nn, kk) ==
  IF kk = 0 \/ kk = nn THEN 1
  ELSE IF kk > nn THEN 0
  ELSE Binom(nn - 1, kk - 1) + Binom(nn - 1, kk)

\* C2: every (group, test-combination) pairing, i.e. every (g, c) with g one
\* of the k test groups of combination c, is the fold of group g in exactly
\* one path, and for a fixed group the fold ids of the paths are pairwise
\* distinct.
C2_PairingsUsedOnce ==
  cpcv_pc = "done" =>
    LET tg == TestGroups(n, k) IN
    /\ \A g \in 0..(n - 1) : \A c \in DOMAIN tg :
         g \in tg[c] =>
           Cardinality({p \in 0..(n_paths - 1) : path_folds[g, p] = c}) = 1
    /\ \A g \in 0..(n - 1) : \A p1, p2 \in 0..(n_paths - 1) :
         p1 # p2 => path_folds[g, p1] # path_folds[g, p2]

C2_Witness ==
  cpcv_pc = "done" /\ k >= 2 /\ k < n /\ n_paths >= 3

\* C3: every time step gets exactly one group id in 0..n-1, the ids are
\* non-decreasing in time, and every step from n*floor(t_span/n) on is in the
\* last group n-1.
C3_GroupsPartitionTimeAxis ==
  cpcv_pc = "done" =>
    /\ DOMAIN group_num = 0..(t_span - 1)
    /\ \A t \in 0..(t_span - 1) : group_num[t] \in 0..(n - 1)
    /\ \A t1, t2 \in 0..(t_span - 1) : t1 <= t2 => group_num[t1] <= group_num[t2]
    /\ \A t \in 0..(t_span - 1) :
         t >= n * (t_span \div n) => group_num[t] = n - 1

\* C4: every cell paths[t, p] holds a combination id c (never NaN) with
\* is_test[t, c] true.
C4_PathCellsAreTestFolds ==
  cpcv_pc = "done" =>
    \A t \in 0..(t_span - 1) : \A p \in 0..(n_paths - 1) :
      /\ paths[t, p] # NaN
      /\ <<t, paths[t, p]>> \in DOMAIN is_test
      /\ is_test[t, paths[t, p]]

\* C5: the test mask has t_span rows and C(n,k) columns, C(n,k)*k is divisible
\* by n, and the path matrix has C(n,k)*k/n columns.
C5_ShapesAndExactPathCount ==
  cpcv_pc = "done" =>
    /\ DOMAIN is_test = (0..(t_span - 1)) \X (0..(Binom(n, k) - 1))
    /\ (Binom(n, k) * k) % n = 0
    /\ n_paths * n = Binom(n, k) * k
    /\ DOMAIN paths = (0..(t_span - 1)) \X (0..(n_paths - 1))

\* The example of the claim: n = 5, k = 2 gives 10 combinations and 4 paths.
C5_Witness ==
  /\ cpcv_pc = "done" /\ n = 5 /\ k = 2 /\ n_paths = 4
  /\ DOMAIN is_test = (0..(t_span - 1)) \X (0..9)

(***************************************************************************)
(* Claims about cluster_and_aggregate (checked under SpecAgg).             *)
(***************************************************************************)

\* C7: with fewer than 3 entries in top_params_list, cluster_and_aggregate
\* returns an entry of the pool, values unmodified, and no entry of the pool
\* has a higher validation score (scores that are NaN are not compared),
\* whatever the order of the pool.
C7_SmallPoolReturnsHighestScoring ==
  (agg_pc = "done" /\ Len(top_params_list) < MinMaxClusters) =>
    /\ \E i \in DOMAIN top_params_list :
         best_param_set = RowAsDict(Frame(top_params_list), i)
    /\ \A j \in DOMAIN top_params_list :
         (~IsNaNValue(top_params_list[j].sharpe) /\ ~IsNaNValue(best_param_set.sharpe))
           => top_params_list[j].sharpe <= best_param_set.sharpe

(***************************************************************************)
(* Claims about run_stress_tests (checked under SpecStress).               *)
(***************************************************************************)

\* C10: no raise of the evaluation aborts the batch; when the batch is done
\* every trial has been evaluated, a raising trial has an empty series and no
\* column, and the panel handed to the battery has exactly the columns of the
\* trials whose evaluation returned a non-empty series.
C10_RaisingTrialsAreIsolated ==
  /\ stress_pc # "raised"
  /\ stress_pc = "done" =>
       /\ \A i \in DOMAIN all_tested_params :
            /\ calc_pl_outcome[i] # "pending"
            /\ calc_pl_outcome[i] = "raise" =>
                 (results[i].series = {} /\ i \notin Range(result_df.columns))
       /\ Range(result_df.columns) =
            {i \in DOMAIN all_tested_params : calc_pl_outcome[i] = "series"}
       /\ result_df.handed <=> (result_df.columns # <<>>)

\* A batch in which a trial raised, later trials were still evaluated and a
\* panel was handed over.
C10_Witness ==
  /\ stress_pc = "done" /\ result_df.handed
  /\ \E i, j \in DOMAIN all_tested_params :
       i < j /\ calc_pl_outcome[i] = "raise" /\ calc_pl_outcome[j] = "series"

(***************************************************************************)
(* Claims about reconstruct_equity_curves (checked under SpecRecon).       *)
(***************************************************************************)

\* Two tickers' path matrices differ in their number of columns, or in the
\* set of values of some column.
TickersDisagree ==
  \E i, j \in DOMAIN backtest_paths :
    \/ backtest_paths[i].shape1 # backtest_paths[j].shape1
    \/ \E col \in 0..(backtest_paths[i].shape1 - 1) :
         ColumnValues(backtest_paths[i], col) # ColumnValues(backtest_paths[j], col)

\* C11: when two tickers' path matrices differ in their number of columns or
\* in the fold ids of a column, reconstruct_equity_curves raises the
\* desynchronisation error and calc_pl is never called; when all tickers
\* agree it does not raise that error.
C11_DesynchronisedTickersAbort ==
  /\ TickersDisagree =>
       (rec_pc \in {"call", "raised_columns", "raised_folds"} /\ calc_pl_calls = <<>>)
  /\ ~TickersDisagree => rec_pc \notin {"raised_columns", "raised_folds"}

\* The distinct fold ids of column p of the first ticker's matrix.
FoldIdsOfPath(p) == ColumnValues(backtest_paths[1], p)

\* A list of numbers in strictly increasing order.
StrictlyIncreasing(q) == \A i, j \in DOMAIN q : i < j => q[i] < q[j]

\* C16: reconstruct_equity_curves does not fail on a fold id of a path; for
\* every finished path every distinct fold id of the path has been evaluated
\* exactly once, in ascending order of the ids, and the concatenated series
\* of the path covers every row once, in chronological order; along every
\* path column the fold ids are non-decreasing in time.
C16_FoldSegmentsInTimeOrder ==
  /\ rec_pc # "raised_int_nan"
  /\ \A p \in 0..(Len(final_returns) - 1) :
       /\ \A f \in FoldIdsOfPath(p) :
            Cardinality({c \in DOMAIN calc_pl_calls : calc_pl_calls[c] = <<p, f>>}) = 1
       /\ StrictlyIncreasing(final_returns[p + 1])
       /\ Range(final_returns[p + 1]) = 0..(backtest_paths[1].shape0 - 1)
  /\ rec_pc # "off" =>
       \A p \in 0..(backtest_paths[1].shape1 - 1) :
         \A t1, t2 \in 0..(backtest_paths[1].shape0 - 1) :
           (/\ t1 <= t2
            /\ ~IsNaNValue(backtest_paths[1].cell[t1, p])
            /\ ~IsNaNValue(backtest_paths[1].cell[t2, p]))
             => backtest_paths[1].cell[t1, p] <= backtest_paths[1].cell[t2, p]

(***************************************************************************)
(* Claims about create_combcv_dict (checked under SpecCombcv).             *)
(***************************************************************************)

\* The group of time step t among nn contiguous groups of a series of ts
\* steps, the last group taking the remainder.
GroupOf(ts, nn, t) == Min({t \div (ts \div nn), nn - 1})

\* The positions named by a list of index ranges, and how many it lists.
Positions(ranges) == UNION {Range(ranges[i]) : i \in DOMAIN ranges}
Listed(ranges) == SumSeq([i \in DOMAIN ranges |-> Len(ranges[i])])

\* r lists consecutive positions in increasing order and no range of the same
\* side continues it.
MaximalRun(r, side) ==
  /\ \A i \in 1..(Len(r) - 1) : r[i + 1] = r[i] + 1
  /\ r # <<>> => (r[1] - 1) \notin side /\ (r[Len(r)] + 1) \notin side

\* C19: for every fold c and ticker that create_combcv_dict assigns with
\* n_test_splits >= 1, the train and test ranges are disjoint, list every
\* position 0..len-1 once, each range is a maximal run of consecutive
\* positions, and the test positions are the positions of the groups of
\* combination c.
C19_TrainTestRangesPartitionSeries ==
  (cv_pc = "done" /\ n_test_splits >= 1) =>
    \A c \in DOMAIN combcv_dict : \A ticker \in DOMAIN combcv_dict[c] :
      LET len == train_data[ticker]
          train == combcv_dict[c][ticker].train
          test == IF n_splits = 0 THEN <<>> ELSE combcv_dict[c][ticker].test
      IN /\ Positions(train) \cap Positions(test) = {}
         /\ Positions(train) \cup Positions(test) = 0..(len - 1)
         /\ Listed(train) + Listed(test) = len
         /\ \A i \in DOMAIN train : MaximalRun(train[i], Positions(train))
         /\ \A i \in DOMAIN test : MaximalRun(test[i], Positions(test))
         /\ n_splits >= 1 =>
              Positions(test) =
                {t \in 0..(len - 1) :
                   GroupOf(len, n_splits, t) \in TestGroups(n_splits, n_test_splits)[c]}

(***************************************************************************)
(* Claims about aggregate_params (checked under SpecAgp).                  *)
(***************************************************************************)

\* C13: aggregate_params of a list holding a single trial returns a parameter
\* set whose every field has the value of that trial's field: the number (a
\* NaN stays a NaN), the bool, the str and every element of the list.
C13_SingleTrialAggregatesToItself ==
  (agp_pc = "done" /\ Len(cluster_params) = 1) =>
    /\ aggregated.num.sum = cluster_params[1].num * aggregated.num.unit
    /\ aggregated.flag = cluster_params[1].flag
    /\ aggregated.cat = cluster_params[1].cat
    /\ DOMAIN aggregated.vec.sum = DOMAIN cluster_params[1].vec
    /\ \A j \in DOMAIN cluster_params[1].vec :
         aggregated.vec.sum[j] = cluster_params[1].vec[j] * aggregated.vec.unit

C13_Witness ==
  /\ agp_pc = "done" /\ Len(cluster_params) = 1
  /\ cluster_params[1].num = 2 /\ cluster_params[1].flag
  /\ cluster_params[1].vec = <<1, 2>>

(***************************************************************************)
(* Claims about read_saved_params (checked under SpecReload).              *)
(***************************************************************************)

\* C15: after optimize has saved both tables, read_saved_params rebuilds
\* best_params_by_fold with exactly one entry per completed fold, each a row
\* of the saved top-parameters table that carries that fold's attribution and
\* holds the parameter values of the fold's attributed trial, and rebuilds
\* all_tested_params with one entry per row of the saved ledger, in order.
C15_ReloadRebuildsBestAndLedger ==
  read_pc = "done" =>
    /\ DOMAIN reloaded.best_params_by_fold = 0..(fold_num - 1)
    /\ \A f \in DOMAIN reloaded.best_params_by_fold :
         LET tp == reloaded.best_params_by_fold[f] IN
         /\ {"a", "b"} \subseteq tp.keys
         /\ tp.a = best_params_by_fold[f].a
         /\ tp.b = best_params_by_fold[f].b
         /\ \E r \in DOMAIN top_params_csv.rows :
              /\ top_params_csv.rows[r].fold_num = f
              /\ top_params_csv.rows[r].a = tp.a
              /\ top_params_csv.rows[r].b = tp.b
    /\ Len(reloaded.all_tested_params) = Len(all_tested_params_csv.rows)
    /\ \A i \in DOMAIN reloaded.all_tested_params :
         /\ reloaded.all_tested_params[i].a = all_tested_params_csv.rows[i].a
         /\ reloaded.all_tested_params[i].b = all_tested_params_csv.rows[i].b

\* Both folds saved, a validated trial without attribution among the rows.
C15_Witness ==
  /\ read_pc = "done" /\ fold_num = NumFolds
  /\ \E r \in DOMAIN top_params_csv.rows : IsNaNValue(top_params_csv.rows[r].fold_num)
  /\ Len(reloaded.all_tested_params) >= 2

====
